---- MODULE Spec2Model ----
(***************************************************************************)
(* The seat/device registry of mpx_wayland (core/seat_manager.py and       *)
(* core/models.py) as a state machine.  One action per public operation    *)
(* of SeatManager; every action is the whole method, nested calls          *)
(* included.  `last` records the most recent call: its name, arguments,    *)
(* outcome and the events it emitted, in emission order.                   *)
(*                                                                         *)
(* Seat identifiers (uuid4 strings in the code) are numbered in creation   *)
(* order and never reused, so the order of identifiers is the insertion    *)
(* order of SeatManager._seats.  Device identifiers are numbers as well.   *)
(* None is NoSeat / NoDevice, and an Optional[Grab] is a set with at most  *)
(* one element.  Callers register InputDevice objects they have just       *)
(* constructed (seat_id None) or the object that is already registered.    *)
(*                                                                         *)
(* Spec          every operation, behaviours of at most MaxOps calls       *)
(* SpecRegistry  seat and device management only, at most MaxRegistryOps   *)
(* SpecPairs     assigning and unassigning, with the previous call kept    *)
(* SpecSeats     seats created, destroyed and looked up by name            *)
(* SpecGrabs     pointer grabs and get_active_grabs, previous call kept    *)
(* SpecMotion    one device moved under changing display bounds            *)
(* SpecListeners device management with registered event listeners         *)
(* SpecReentrant listeners that call the registry from their callback      *)
(* SpecConc      two callers inside request_pointer_grab at the same time  *)
(* SpecConcAssign two callers inside assign_device at the same time        *)
(***************************************************************************)
EXTENDS Integers, FiniteSets, Sequences, TLC

\* ---------------------------------------------------------------- bounds
\* Number of seat identifiers uuid4 can hand out in one behaviour.
MaxSeats == 2
\* Number of distinct device identifiers the callers use.
MaxDevices == 1
\* Number of registry calls in one behaviour of Spec.
MaxOps == 4
\* Number of seat and device management calls in one behaviour of SpecRegistry.
MaxRegistryOps == 6
\* Number of calls in one behaviour of SpecPairs.
MaxPairOps == 5
\* Number of calls in one behaviour of SpecMotion.
MaxMotionOps == 5
\* Number of seat identifiers handed out, and of calls, in one behaviour of SpecSeats.
MaxSeatsNamed == 3
MaxSeatOps == 5
\* Number of calls in one behaviour of SpecGrabs.
MaxGrabOps == 5
\* Number of listeners registered at one time, and of calls in one behaviour of
\* SpecListeners.
MaxListeners == 2
MaxListenerOps == 4
\* Number of calls in one behaviour of SpecReentrant.
MaxReentrantOps == 5

\* ------------------------------------------------------ program constants
DefaultWidth == 1920
DefaultHeight == 1080

\* Optional[str] seat_id = None, and "no device" in an Event.
NoSeat == 0
NoDevice == 0

SeatIds == 1..MaxSeats
DeviceIds == 1..MaxDevices

Names == {"seat0", "aux"}
SeatStates == {"ACTIVE", "INACTIVE", "SUSPENDED"}
GrabModes == {"NONE", "POINTER_LOCK", "POINTER_CONFINE", "KEYBOARD"}

\* Capability sets the callers register devices with.
CapChoices == {{"POINTER"}, {"KEYBOARD"}, {"POINTER", "KEYBOARD"}, {"TOUCH"}}

\* (client_id, mode, surface_id) triples passed to request_pointer_grab.
GrabRequests ==
    { [mode |-> "POINTER_LOCK", client_id |-> "game", surface_id |-> "none"],
      [mode |-> "POINTER_CONFINE", client_id |-> "other", surface_id |-> "surf"],
      [mode |-> "KEYBOARD", client_id |-> "game", surface_id |-> "surf"],
      [mode |-> "NONE", client_id |-> "other", surface_id |-> "none"] }

\* (dx, dy) pairs passed to route_pointer_motion.
Deltas == { <<5000, 5000>>, <<-1000, -1000>>, <<5000, 3>> }

\* DisplayBounds() as constructed, and the rectangles set_display_bounds installs.
DefaultBounds == [x |-> 0, y |-> 0, width |-> DefaultWidth, height |-> DefaultHeight]
BoundsChoices ==
    { DefaultBounds,
      [x |-> 10, y |-> 10, width |-> 100, height |-> 100],
      [x |-> 0, y |-> 0, width |-> 0, height |-> 0] }

VARIABLES
    seats,            \* SeatManager._seats: seat id -> Seat
    devices,          \* SeatManager._devices: device id -> InputDevice
    default_seat_id,  \* SeatManager._default_seat_id
    display_bounds,   \* SeatManager._display_bounds
    next_id,          \* number of seat identifiers generated so far
    last,             \* the most recent call and its outcome
    nops,             \* number of calls made
    pc,               \* position of each concurrent caller of request_pointer_grab
    req,              \* arguments and result of each concurrent caller
    prev,             \* the call before the most recent one, where it is recorded
    listeners,        \* SeatManager._event_listeners: the callbacks, in registration order
    received          \* callback -> the events it was invoked with, in invocation order

vars == <<seats, devices, default_seat_id, display_bounds, next_id, last, nops, pc, req,
          prev, listeners, received>>

\* ------------------------------------------------------------ data model
Min(a, b) == IF a < b THEN a ELSE b
Max(a, b) == IF a > b THEN a ELSE b

\* Position.move
Move(p, dx, dy) == [x |-> p.x + dx, y |-> p.y + dy]

\* Position.clamp
Clamp(p, min_x, min_y, max_x, max_y) ==
    [x |-> Max(min_x, Min(max_x, p.x)), y |-> Max(min_y, Min(max_y, p.y))]

\* NewSeat with a fault seeded: the seat starts INACTIVE.
NewSeatInactive(name) ==
    [ name |-> name,
      state |-> "INACTIVE",
      cursor |-> [x |-> 0, y |-> 0],
      pointer_grab |-> {},
      keyboard_grab |-> {},
      pointer_devices |-> {},
      keyboard_devices |-> {} ]

\* Seat(name=name) with the identifier uuid4 produced.
NewSeat(name) ==
    [ name |-> name,
      state |-> "ACTIVE",
      cursor |-> [x |-> 0, y |-> 0],
      pointer_grab |-> {},
      keyboard_grab |-> {},
      pointer_devices |-> {},
      keyboard_devices |-> {} ]

\* InputDevice(...) as the callers construct it: seat_id defaults to None.
NewDevice(caps) == [capabilities |-> caps, seat_id |-> NoSeat]

\* Grab.is_active
IsActive(g) == g.mode # "NONE"

\* Seat.is_pointer_grabbed; an Optional[Grab] is the empty or a one-element set.
IsPointerGrabbed(seat) == \E g \in seat.pointer_grab : IsActive(g)

\* Seat.is_keyboard_grabbed
IsKeyboardGrabbed(seat) == \E g \in seat.keyboard_grab : IsActive(g)

\* SetPointerGrab with a fault seeded: a grab of mode KEYBOARD is stored as the
\* keyboard grab.
SetPointerGrabByMode(seat, r) ==
    IF r.mode = "KEYBOARD" THEN [seat EXCEPT !.keyboard_grab = {r}]
    ELSE [seat EXCEPT !.pointer_grab = {r}]

\* Seat.set_pointer_grab
SetPointerGrab(seat, r) == [seat EXCEPT !.pointer_grab = {r}]

\* Seat.release_pointer_grab
ReleasePointerGrabOf(seat) == [seat EXCEPT !.pointer_grab = {}]

\* InputDevice.has_capability
HasCapability(dev, cap) == cap \in dev.capabilities

\* Event(event_type, seat_id, device_id)
Event(type, s, d) == [type |-> type, seat_id |-> s, device_id |-> d]

\* The data of the SEAT_STATE_CHANGED event, line 245: the dict as its items.
StateChangeData(old, new) == {<<"old_state", old>>, <<"new_state", new>>}

\* The record of one call.
Call(op, s, d, status, ret, granted, events) ==
    [ op |-> op, seat |-> s, device |-> d, status |-> status,
      ret |-> ret, granted |-> granted, events |-> events, arg |-> <<>>,
      from |-> [x |-> 0, y |-> 0], value |-> <<>>, data |-> {} ]

\* The call record with the argument that is neither a seat nor a device identifier.
WithArg(c, a) == [c EXCEPT !.arg = a]

\* The call record of a routed motion with the cursor position it started from.
WithFrom(c, p) == [c EXCEPT !.from = p]

\* The call record with the data of the event it emitted.
WithData(c, data) == [c EXCEPT !.data = data]

\* The call record of a query with the value it returned.
WithValue(c, v) == [c EXCEPT !.value = v]

\* A call that raised: nothing was emitted.
Raised(op, s, d, error) == Call(op, s, d, error, NoSeat, FALSE, <<>>)

\* A call that returned normally without a value.
Returned(op, s, d, events) == Call(op, s, d, "ok", NoSeat, FALSE, events)

\* The callbacks the callers register as listeners: one that records the event,
\* one that raises an Exception, one that calls auto_assign_device for the
\* device of every DEVICE_ADDED event it is given, one that calls assign_device
\* to put the device of every DEVICE_UNASSIGNED event back on the seat it left,
\* and one that calls remove_event_listener on itself when it is invoked.
BasicCallbacks == {"rec", "bad", "auto"}
ReentrantCallbacks == {"rec", "back", "once"}
Callbacks == BasicCallbacks \cup ReentrantCallbacks

\* The concurrent callers before they call.
Idle == [t \in {1, 2} |-> "idle"]
NoReq ==
    [t \in {1, 2} |->
        [seat |-> NoSeat, device |-> NoDevice,
         r |-> CHOOSE r \in GrabRequests : r.mode = "NONE", granted |-> FALSE]]

Init ==
    /\ seats = (1 :> NewSeat("seat0"))
    /\ devices = <<>>
    /\ default_seat_id = 1
    /\ display_bounds = DefaultBounds
    /\ next_id = 1
    /\ last = Call("__init__", 1, NoDevice, "ok", 1, FALSE, <<Event("SEAT_CREATED", 1, NoDevice)>>)
    /\ nops = 0
    /\ pc = Idle
    /\ req = NoReq
    /\ prev = last
    /\ listeners = <<>>
    /\ received = [cb \in Callbacks |-> <<>>]

\* ------------------------------------------------------- seat management
RECURSIVE SeatByNameFrom(_, _, _, _)

\* A call made while no other call is running, on a registry that has no
\* listener (lines 132-136 iterate over an empty list): it is counted and leaves
\* the concurrent callers alone.
Sequential ==
    /\ listeners = <<>>
    /\ nops' = nops + 1
    /\ UNCHANGED <<pc, req, listeners, received>>

\* create_seat(name)
CreateSeat(name) ==
    /\ Sequential
    /\ LET id == next_id + 1 IN
        /\ next_id' = id
        /\ seats' = seats @@ (id :> NewSeat(name))
        /\ last' = Call("create_seat", id, NoDevice, "ok", id, FALSE,
                        <<Event("SEAT_CREATED", id, NoDevice)>>)
    /\ UNCHANGED <<devices, default_seat_id, display_bounds>>

\* destroy_seat, lines 183-186: the devices listed in the seat's sets lose their seat_id.
DevicesAfterDestroy(S, D, s) ==
    [d \in DOMAIN D |->
        IF d \in S[s].pointer_devices \cup S[s].keyboard_devices
        THEN [D[d] EXCEPT !.seat_id = NoSeat]
        ELSE D[d]]

\* destroy_seat, line 188: del self._seats[seat_id]
SeatsAfterDestroy(S, s) == [x \in DOMAIN S \ {s} |-> S[x]]

\* DestroyEvents with a fault seeded: the grab of the seat is ended first.
DestroyEventsEndingGrab(S, s) ==
    IF IsPointerGrabbed(S[s])
    THEN <<Event("GRAB_ENDED", s, NoDevice), Event("SEAT_DESTROYED", s, NoDevice)>>
    ELSE <<Event("SEAT_DESTROYED", s, NoDevice)>>

\* destroy_seat, lines 191-195: the one event of the call.
DestroyEvents(S, s) == <<Event("SEAT_DESTROYED", s, NoDevice)>>

\* IsDefaultSeat with a fault seeded: the default-seat test is missing.
IsDefaultSeatNever(s) == FALSE

\* destroy_seat, line 178: the seat that may not be destroyed.
IsDefaultSeat(s) == s = default_seat_id

\* destroy_seat(seat_id)
DestroySeat(s) ==
    /\ Sequential
    /\ IF s \notin DOMAIN seats
       THEN /\ last' = Raised("destroy_seat", s, NoDevice, "SeatNotFoundError")
            /\ UNCHANGED <<seats, devices>>
       ELSE IF IsDefaultSeat(s)
       THEN /\ last' = Raised("destroy_seat", s, NoDevice, "SeatManagerError")
            /\ UNCHANGED <<seats, devices>>
       ELSE /\ devices' = DevicesAfterDestroy(seats, devices, s)
            /\ seats' = SeatsAfterDestroy(seats, s)
            /\ last' = Returned("destroy_seat", s, NoDevice, DestroyEvents(seats, s))
    /\ UNCHANGED <<default_seat_id, display_bounds, next_id>>

\* SeatByNameFrom with a fault seeded: the seat created last among the matches.
SeatByNameLast(S, name, i, n) ==
    LET matches == {s \in DOMAIN S : s >= i /\ s <= n /\ S[s].name = name} IN
    IF matches = {} THEN NoSeat
    ELSE CHOOSE s \in matches : \A x \in matches : x <= s

\* get_seat_by_name, lines 224-227: the loop over self._seats.values(), in
\* insertion order, from the i-th identifier handed out up to the n-th; the seat
\* is returned as its identifier and None as NoSeat.
SeatByNameFrom(S, name, i, n) ==
    IF i > n THEN NoSeat
    ELSE IF i \in DOMAIN S /\ S[i].name = name THEN i
    ELSE SeatByNameFrom(S, name, i + 1, n)

\* get_seat_by_name(name)
GetSeatByName(name) ==
    /\ Sequential
    /\ last' = WithArg(WithValue(Returned("get_seat_by_name", NoSeat, NoDevice, <<>>),
                                 SeatByNameFrom(seats, name, 1, next_id)), name)
    /\ UNCHANGED <<seats, devices, default_seat_id, display_bounds, next_id>>

\* The assignment of line 239 with a fault seeded: every seat gets the state.
SeatsAfterStateEverySeat(S, s, st) == [x \in DOMAIN S |-> [S[x] EXCEPT !.state = st]]

\* seat.state = state, line 239.
SeatsAfterState(S, s, st) == [S EXCEPT ![s].state = st]

\* set_seat_state(seat_id, state)
SetSeatState(s, st) ==
    /\ Sequential
    /\ IF s \notin DOMAIN seats
       THEN /\ last' = Raised("set_seat_state", s, NoDevice, "SeatNotFoundError")
            /\ UNCHANGED seats
       ELSE /\ seats' = SeatsAfterState(seats, s, st)
            /\ last' = WithData(WithArg(Returned("set_seat_state", s, NoDevice,
                                        <<Event("SEAT_STATE_CHANGED", s, NoDevice)>>), st),
                                StateChangeData(seats[s].state, st))
    /\ UNCHANGED <<devices, default_seat_id, display_bounds, next_id>>

\* SetDisplayBounds with a fault seeded: every cursor is clamped into the new bounds.
SetDisplayBoundsReclamping(b) ==
    /\ Sequential
    /\ display_bounds' = b
    /\ seats' = [s \in DOMAIN seats |->
                    [seats[s] EXCEPT !.cursor =
                        Clamp(@, b.x, b.y, b.x + b.width - 1, b.y + b.height - 1)]]
    /\ last' = WithArg(Returned("set_display_bounds", NoSeat, NoDevice, <<>>), b)
    /\ UNCHANGED <<devices, default_seat_id, next_id>>

\* set_display_bounds(bounds): no event is emitted.
SetDisplayBounds(b) ==
    /\ Sequential
    /\ display_bounds' = b
    /\ last' = WithArg(Returned("set_display_bounds", NoSeat, NoDevice, <<>>), b)
    /\ UNCHANGED <<seats, devices, default_seat_id, next_id>>

\* ----------------------------------------------------- device management
\* register_device(device): self._devices[device.id] = device
DevicesAfterRegister(D, d, dev) == [x \in DOMAIN D \cup {d} |-> IF x = d THEN dev ELSE D[x]]

\* register_device with a newly constructed InputDevice (d may already be registered).
RegisterDevice(d, caps) ==
    /\ Sequential
    /\ devices' = DevicesAfterRegister(devices, d, NewDevice(caps))
    /\ last' = WithArg(Returned("register_device", NoSeat, d,
                                 <<Event("DEVICE_ADDED", NoSeat, d)>>), caps)
    /\ UNCHANGED <<seats, default_seat_id, display_bounds, next_id>>

\* register_device called again with the object that is already registered.
ReRegisterSameDevice(d) ==
    /\ Sequential
    /\ d \in DOMAIN devices
    /\ devices' = DevicesAfterRegister(devices, d, devices[d])
    /\ last' = WithArg(Returned("register_device", NoSeat, d,
                                 <<Event("DEVICE_ADDED", NoSeat, d)>>), devices[d].capabilities)
    /\ UNCHANGED <<seats, default_seat_id, display_bounds, next_id>>

\* unassign_device, lines 370-377, for a device with a seat_id: the seats afterwards.
SeatsAfterUnassign(S, D, d) ==
    LET sid == D[d].seat_id IN
    IF sid \in DOMAIN S
    THEN [S EXCEPT ![sid].pointer_devices = @ \ {d},
                   ![sid].keyboard_devices = @ \ {d}]
    ELSE S

\* DevicesAfterUnassign with a fault seeded: the device keeps its seat_id.
DevicesAfterUnassignKept(D, d) == D

\* unassign_device, line 377: device.seat_id = None
DevicesAfterUnassign(D, d) == [D EXCEPT ![d].seat_id = NoSeat]

\* UnassignEvents with a fault seeded: unassigning emits nothing.
UnassignEventsNone(D, d) == <<>>

\* unassign_device, lines 380-385
UnassignEvents(D, d) == <<Event("DEVICE_UNASSIGNED", D[d].seat_id, d)>>

\* `if device.seat_id:` - None is the only falsy identifier the registry stores.
HasSeatId(dev) == dev.seat_id # NoSeat

\* unassign_device(device_id)
UnassignDevice(d) ==
    /\ Sequential
    /\ IF d \notin DOMAIN devices
       THEN /\ last' = Raised("unassign_device", NoSeat, d, "DeviceNotFoundError")
            /\ UNCHANGED <<seats, devices>>
       ELSE IF ~HasSeatId(devices[d])
       THEN /\ last' = Returned("unassign_device", NoSeat, d, <<>>)
            /\ UNCHANGED <<seats, devices>>
       ELSE /\ seats' = SeatsAfterUnassign(seats, devices, d)
            /\ devices' = DevicesAfterUnassign(devices, d)
            /\ last' = Returned("unassign_device", NoSeat, d, UnassignEvents(devices, d))
    /\ UNCHANGED <<default_seat_id, display_bounds, next_id>>

\* unregister_device, line 287: del self._devices[device_id]
DevicesAfterUnregister(D, d) == [x \in DOMAIN D \ {d} |-> D[x]]

\* unregister_device(device_id)
UnregisterDevice(d) ==
    /\ Sequential
    /\ IF d \notin DOMAIN devices
       THEN /\ last' = Raised("unregister_device", NoSeat, d, "DeviceNotFoundError")
            /\ UNCHANGED <<seats, devices>>
       ELSE LET assigned == HasSeatId(devices[d])
                S1 == IF assigned THEN SeatsAfterUnassign(seats, devices, d) ELSE seats
                D1 == IF assigned THEN DevicesAfterUnassign(devices, d) ELSE devices
                E1 == IF assigned THEN UnassignEvents(devices, d) ELSE <<>>
            IN  /\ seats' = S1
                /\ devices' = DevicesAfterUnregister(D1, d)
                /\ last' = Returned("unregister_device", NoSeat, d,
                                    E1 \o <<Event("DEVICE_REMOVED", NoSeat, d)>>)
    /\ UNCHANGED <<default_seat_id, display_bounds, next_id>>

\* assign_device, lines 342-345: the target seat's sets gain d as its capabilities say.
SeatsAfterAssign(S, dev, d, s) ==
    [S EXCEPT ![s].pointer_devices =
                    IF HasCapability(dev, "POINTER") THEN @ \cup {d} ELSE @,
              ![s].keyboard_devices =
                    IF HasCapability(dev, "KEYBOARD") THEN @ \cup {d} ELSE @]

\* assign_device, line 340: device.seat_id = seat_id
DevicesAfterAssign(D, d, s) == [D EXCEPT ![d].seat_id = s]

\* AssignCheck with a fault seeded: an assigned device is never refused.
AssignCheckAlwaysForced(S, D, d, s, force) ==
    IF d \notin DOMAIN D THEN "DeviceNotFoundError"
    ELSE IF s \notin DOMAIN S THEN "SeatNotFoundError"
    ELSE "ok"

\* assign_device, lines 328-337: the error it raises, or "ok".
AssignCheck(S, D, d, s, force) ==
    IF d \notin DOMAIN D THEN "DeviceNotFoundError"
    ELSE IF s \notin DOMAIN S THEN "SeatNotFoundError"
    ELSE IF HasSeatId(D[d]) /\ ~force THEN "DeviceAlreadyAssignedError"
    ELSE "ok"

\* AssignBody with a fault seeded: the device is unassigned before the target seat is looked up.
AssignBodyUnassignFirst(op, d, s, force, ret) ==
    LET status == AssignCheck(seats, devices, d, s, force)
        early == d \in DOMAIN devices /\ HasSeatId(devices[d]) /\ force
        S1 == IF early THEN SeatsAfterUnassign(seats, devices, d) ELSE seats
        D1 == IF early THEN DevicesAfterUnassign(devices, d) ELSE devices
        E1 == IF early THEN UnassignEvents(devices, d) ELSE <<>>
    IN  IF status # "ok"
        THEN /\ last' = WithArg(Raised(op, s, d, status), force)
             /\ seats' = S1
             /\ devices' = D1
        ELSE /\ devices' = DevicesAfterAssign(D1, d, s)
             /\ seats' = SeatsAfterAssign(S1, devices[d], d, s)
             /\ last' = WithArg(Call(op, s, d, "ok", ret, FALSE,
                                     E1 \o <<Event("DEVICE_ASSIGNED", s, d)>>), force)

\* The body of assign_device(device_id, seat_id, force) called as `op`.
AssignBody(op, d, s, force, ret) ==
    LET status == AssignCheck(seats, devices, d, s, force) IN
    IF status # "ok"
    THEN /\ last' = WithArg(Raised(op, s, d, status), force)
         /\ UNCHANGED <<seats, devices>>
    ELSE LET assigned == HasSeatId(devices[d])
             S1 == IF assigned THEN SeatsAfterUnassign(seats, devices, d) ELSE seats
             D1 == IF assigned THEN DevicesAfterUnassign(devices, d) ELSE devices
             E1 == IF assigned THEN UnassignEvents(devices, d) ELSE <<>>
         IN  /\ devices' = DevicesAfterAssign(D1, d, s)
             /\ seats' = SeatsAfterAssign(S1, devices[d], d, s)
             /\ last' = WithArg(Call(op, s, d, "ok", ret, FALSE,
                                     E1 \o <<Event("DEVICE_ASSIGNED", s, d)>>), force)

\* assign_device(device_id, seat_id, force)
AssignDevice(d, s, force) ==
    /\ Sequential
    /\ AssignBody("assign_device", d, s, force, NoSeat)
    /\ UNCHANGED <<default_seat_id, display_bounds, next_id>>

\* auto_assign_device(device_id)
AutoAssignDevice(d) ==
    /\ Sequential
    /\ AssignBody("auto_assign_device", d, default_seat_id, FALSE, default_seat_id)
    /\ UNCHANGED <<default_seat_id, display_bounds, next_id>>

\* RouteTarget with a fault seeded: a seat with an active pointer grab gets nothing.
RouteTargetUngrabbedOnly(S, D, d) ==
    IF d \notin DOMAIN D \/ ~HasSeatId(D[d]) THEN NoSeat
    ELSE IF D[d].seat_id \notin DOMAIN S THEN NoSeat
    ELSE IF S[D[d].seat_id].state # "ACTIVE" THEN NoSeat
    ELSE IF IsPointerGrabbed(S[D[d].seat_id]) THEN NoSeat
    ELSE D[d].seat_id

\* RouteTarget with a fault seeded: only a device its seat lists is routed.
RouteTargetListedOnly(S, D, d) ==
    IF d \notin DOMAIN D \/ ~HasSeatId(D[d]) THEN NoSeat
    ELSE IF D[d].seat_id \notin DOMAIN S THEN NoSeat
    ELSE IF S[D[d].seat_id].state # "ACTIVE" THEN NoSeat
    ELSE IF d \notin S[D[d].seat_id].pointer_devices \cup S[D[d].seat_id].keyboard_devices
    THEN NoSeat
    ELSE D[d].seat_id

\* ---------------------------------------------------- input event routing
\* RouteTarget with a fault seeded: the seat's state is not tested.
RouteTargetIgnoringState(S, D, d) ==
    IF d \notin DOMAIN D \/ ~HasSeatId(D[d]) THEN NoSeat
    ELSE IF D[d].seat_id \notin DOMAIN S THEN NoSeat
    ELSE D[d].seat_id

\* route_*, lines 416-422: the seat the event goes to, or NoSeat for `return None`.
RouteTarget(S, D, d) ==
    IF d \notin DOMAIN D \/ ~HasSeatId(D[d]) THEN NoSeat
    ELSE IF D[d].seat_id \notin DOMAIN S THEN NoSeat
    ELSE IF S[D[d].seat_id].state # "ACTIVE" THEN NoSeat
    ELSE D[d].seat_id

\* Positions are floats in the code; with integer deltas and bounds the sums are exact.
\* CursorAfterMotion with a fault seeded: the position is not clamped.
CursorAfterMotionUnclamped(cursor, b, dx, dy) == Move(cursor, dx, dy)

\* route_pointer_motion, lines 425-433: Cursor.move_by, then the clamp to the display.
CursorAfterMotion(cursor, b, dx, dy) ==
    Clamp(Move(cursor, dx, dy), b.x, b.y, b.x + b.width - 1, b.y + b.height - 1)

\* SeatsAfterMotion with a fault seeded: every seat's cursor is moved.
SeatsAfterMotionEverySeat(S, s, b, dx, dy) ==
    [x \in DOMAIN S |-> [S[x] EXCEPT !.cursor = CursorAfterMotion(@, b, dx, dy)]]

\* route_pointer_motion, lines 425-433, on the registry: only the target's cursor is written.
SeatsAfterMotion(S, s, b, dx, dy) ==
    [S EXCEPT ![s].cursor = CursorAfterMotion(@, b, dx, dy)]

\* route_pointer_motion(device_id, dx, dy)
RoutePointerMotion(d, delta) ==
    /\ Sequential
    /\ LET s == RouteTarget(seats, devices, d) IN
       IF s = NoSeat
       THEN /\ last' = WithArg(Returned("route_pointer_motion", NoSeat, d, <<>>), delta)
            /\ UNCHANGED seats
       ELSE /\ seats' = SeatsAfterMotion(seats, s, display_bounds, delta[1], delta[2])
            /\ last' = WithFrom(WithArg(Call("route_pointer_motion", NoSeat, d, "ok", s, FALSE,
                                             <<Event("POINTER_MOTION", s, d)>>), delta),
                                seats[s].cursor)
    /\ UNCHANGED <<devices, default_seat_id, display_bounds, next_id>>

\* RouteBody with a fault seeded: the event goes to the default seat.
RouteBodyToDefaultSeat(op, type, d) ==
    LET s == RouteTarget(seats, devices, d) IN
    IF s = NoSeat
    THEN last' = Returned(op, NoSeat, d, <<>>)
    ELSE last' = Call(op, NoSeat, d, "ok", default_seat_id, FALSE,
                      <<Event(type, default_seat_id, d)>>)

\* The body shared by route_pointer_button and route_keyboard_key.
RouteBody(op, type, d) ==
    LET s == RouteTarget(seats, devices, d) IN
    IF s = NoSeat
    THEN last' = Returned(op, NoSeat, d, <<>>)
    ELSE last' = Call(op, NoSeat, d, "ok", s, FALSE, <<Event(type, s, d)>>)

\* route_pointer_button(device_id, button, pressed)
RoutePointerButton(d) ==
    /\ Sequential
    /\ RouteBody("route_pointer_button", "POINTER_BUTTON", d)
    /\ UNCHANGED <<seats, devices, default_seat_id, display_bounds, next_id>>

\* route_keyboard_key(device_id, key, pressed)
RouteKeyboardKey(d) ==
    /\ Sequential
    /\ RouteBody("route_keyboard_key", "KEYBOARD_KEY", d)
    /\ UNCHANGED <<seats, devices, default_seat_id, display_bounds, next_id>>

\* ------------------------------------------------------- grab management
RECURSIVE ActiveGrabsFrom(_, _, _, _)

\* GrabDenied with a fault seeded: only a pointer-lock grab denies a new request.
GrabDeniedByLockOnly(seat) == \E g \in seat.pointer_grab : g.mode = "POINTER_LOCK"

\* request_pointer_grab, line 530: the test that denies the grab.
GrabDenied(seat) == IsPointerGrabbed(seat)

\* SeatsAfterGrab with a fault seeded: the grab is installed on every seat.
SeatsAfterGrabEverySeat(S, s, r) == [x \in DOMAIN S |-> SetPointerGrab(S[x], r)]

\* request_pointer_grab, line 534, on the registry.
SeatsAfterGrab(S, s, r) == [S EXCEPT ![s] = SetPointerGrab(@, r)]

\* SeatsAfterRelease with a fault seeded: the grab stays.
SeatsAfterReleaseKept(S, s) == S

\* release_pointer_grab, line 557, on the registry.
SeatsAfterRelease(S, s) == [S EXCEPT ![s] = ReleasePointerGrabOf(@)]

\* request_pointer_grab(seat_id, client_id, mode, surface_id), run without interruption.
RequestPointerGrab(s, r) ==
    /\ Sequential
    /\ IF s \notin DOMAIN seats
       THEN /\ last' = WithArg(Raised("request_pointer_grab", s, NoDevice,
                                       "SeatNotFoundError"), r)
            /\ UNCHANGED seats
       ELSE IF GrabDenied(seats[s])
       THEN /\ last' = WithArg(Call("request_pointer_grab", s, NoDevice, "ok", NoSeat,
                                     FALSE, <<>>), r)
            /\ UNCHANGED seats
       ELSE /\ seats' = SeatsAfterGrab(seats, s, r)
            /\ last' = WithArg(Call("request_pointer_grab", s, NoDevice, "ok", NoSeat, TRUE,
                                    <<Event("GRAB_STARTED", s, NoDevice)>>), r)
    /\ UNCHANGED <<devices, default_seat_id, display_bounds, next_id>>

\* release_pointer_grab(seat_id)
ReleasePointerGrab(s) ==
    /\ Sequential
    /\ IF s \notin DOMAIN seats
       THEN /\ last' = Raised("release_pointer_grab", s, NoDevice, "SeatNotFoundError")
            /\ UNCHANGED seats
       ELSE IF ~IsPointerGrabbed(seats[s])
       THEN /\ last' = Returned("release_pointer_grab", s, NoDevice, <<>>)
            /\ UNCHANGED seats
       ELSE /\ seats' = SeatsAfterRelease(seats, s)
            /\ last' = Returned("release_pointer_grab", s, NoDevice,
                                <<Event("GRAB_ENDED", s, NoDevice)>>)
    /\ UNCHANGED <<devices, default_seat_id, display_bounds, next_id>>

\* ActiveGrabsFrom with a fault seeded: every seat with a stored grab is listed.
ActiveGrabsOfStoredFrom(S, i, n, grabs) ==
    IF i > n THEN grabs
    ELSE IF i \in DOMAIN S /\ S[i].pointer_grab # {}
    THEN ActiveGrabsFrom(S, i + 1, n,
            grabs @@ (i :> (CHOOSE g \in S[i].pointer_grab : TRUE).mode))
    ELSE ActiveGrabsFrom(S, i + 1, n, grabs)

\* get_active_grabs, lines 574-576: the loop over self._seats.values(), in
\* insertion order, from the i-th identifier handed out up to the n-th.
ActiveGrabsFrom(S, i, n, grabs) ==
    IF i > n THEN grabs
    ELSE IF i \in DOMAIN S /\ IsPointerGrabbed(S[i])
    THEN ActiveGrabsFrom(S, i + 1, n,
            grabs @@ (i :> (CHOOSE g \in S[i].pointer_grab : TRUE).mode))
    ELSE ActiveGrabsFrom(S, i + 1, n, grabs)

\* get_active_grabs()
GetActiveGrabs ==
    /\ Sequential
    /\ last' = WithValue(Returned("get_active_grabs", NoSeat, NoDevice, <<>>),
                         ActiveGrabsFrom(seats, 1, next_id, <<>>))
    /\ UNCHANGED <<seats, devices, default_seat_id, display_bounds, next_id>>

\* ------------------------------------------------------------- listeners
\* A call on a registry that may have listeners is computed on a record of the
\* fields a callback can reach: the two maps, the listener list, what each
\* callback has been given, and `log`, the events emitted so far in this call.
Reach ==
    [ seats |-> seats, devices |-> devices, listeners |-> listeners,
      received |-> received, log |-> <<>> ]

RECURSIVE EmitFrom(_, _, _)

\* _emit_event(event)
Emit(st, ev) == EmitFrom([st EXCEPT !.log = Append(@, ev)], ev, 1)

\* unassign_device, lines 370-385, of a device that has a seat_id.
UnassignIn(st, d) ==
    Emit([st EXCEPT !.seats = SeatsAfterUnassign(st.seats, st.devices, d),
                    !.devices = DevicesAfterUnassign(st.devices, d)],
         Event("DEVICE_UNASSIGNED", st.devices[d].seat_id, d))

\* AssignIn with a fault seeded: DEVICE_ASSIGNED is emitted before the unassign.
AssignInAssignedFirst(st, d, s, force) ==
    IF AssignCheck(st.seats, st.devices, d, s, force) # "ok" THEN st
    ELSE LET was == HasSeatId(st.devices[d])
             S1 == IF was THEN SeatsAfterUnassign(st.seats, st.devices, d) ELSE st.seats
             D1 == IF was THEN DevicesAfterUnassign(st.devices, d) ELSE st.devices
             st1 == Emit([st EXCEPT !.devices = DevicesAfterAssign(D1, d, s),
                                    !.seats = SeatsAfterAssign(S1, st.devices[d], d, s)],
                         Event("DEVICE_ASSIGNED", s, d))
         IN  IF was THEN Emit(st1, Event("DEVICE_UNASSIGNED", st.devices[d].seat_id, d))
             ELSE st1

\* assign_device(d, s, force); a call that raises leaves the record as it is.
AssignIn(st, d, s, force) ==
    IF AssignCheck(st.seats, st.devices, d, s, force) # "ok" THEN st
    ELSE LET st1 == IF HasSeatId(st.devices[d]) THEN UnassignIn(st, d) ELSE st
         IN  Emit([st1 EXCEPT !.devices = DevicesAfterAssign(st1.devices, d, s),
                              !.seats = SeatsAfterAssign(st1.seats, st.devices[d], d, s)],
                  Event("DEVICE_ASSIGNED", s, d))

\* register_device(device)
RegisterIn(st, d, dev) ==
    Emit([st EXCEPT !.devices = DevicesAfterRegister(st.devices, d, dev)],
         Event("DEVICE_ADDED", NoSeat, d))

\* unregister_device(d) of a registered device.
UnregisterIn(st, d) ==
    LET st1 == IF HasSeatId(st.devices[d]) THEN UnassignIn(st, d) ELSE st
    IN  Emit([st1 EXCEPT !.devices = DevicesAfterUnregister(st1.devices, d)],
             Event("DEVICE_REMOVED", NoSeat, d))

\* list.remove(callback), line 128: the first entry equal to the callback goes.
RemoveFirst(q, cb) ==
    LET i == CHOOSE k \in 1..Len(q) : q[k] = cb /\ \A j \in 1..(k - 1) : q[j] # cb IN
    SubSeq(q, 1, i - 1) \o SubSeq(q, i + 1, Len(q))

\* The body of remove_event_listener, lines 127-128.
ListenersAfterRemove(q, cb) ==
    IF \E k \in 1..Len(q) : q[k] = cb THEN RemoveFirst(q, cb) ELSE q

\* listener(event), line 134, for callback cb: every callback notes the event;
\* "auto" then calls auto_assign_device for an added device, "back" calls
\* assign_device(device, seat it left) for an unassigned device, "once" calls
\* remove_event_listener on itself, "bad" raises an Exception.  Line 135
\* catches what the callback and the calls it makes raise.
Invoke(st, cb, ev) ==
    LET st1 == [st EXCEPT !.received[cb] = Append(@, ev)] IN
    IF cb = "auto" /\ ev.type = "DEVICE_ADDED"
    THEN AssignIn(st1, ev.device_id, default_seat_id, FALSE)
    ELSE IF cb = "back" /\ ev.type = "DEVICE_UNASSIGNED"
    THEN AssignIn(st1, ev.device_id, ev.seat_id, FALSE)
    ELSE IF cb = "once"
    THEN [st1 EXCEPT !.listeners = ListenersAfterRemove(@, cb)]
    ELSE st1

\* EmitFrom with a fault seeded: the exception of a callback is not caught, so the
\* listeners after it are not invoked.
EmitFromUnprotected(st, ev, i) ==
    IF i > Len(st.listeners) THEN st
    ELSE IF st.listeners[i] = "bad" THEN Invoke(st, st.listeners[i], ev)
    ELSE EmitFrom(Invoke(st, st.listeners[i], ev), ev, i + 1)

\* _emit_event, lines 132-136: the loop over the list, from its i-th element on.
EmitFrom(st, ev, i) ==
    IF i > Len(st.listeners) THEN st
    ELSE EmitFrom(Invoke(st, st.listeners[i], ev), ev, i + 1)

\* A call on a registry with listeners: the record the call ends with becomes the
\* state, and `call` with the events emitted becomes the most recent call.
Notified(st, call) ==
    /\ nops' = nops + 1
    /\ seats' = st.seats
    /\ devices' = st.devices
    /\ listeners' = st.listeners
    /\ received' = st.received
    /\ last' = [call EXCEPT !.events = st.log]
    /\ UNCHANGED <<default_seat_id, display_bounds, next_id, pc, req>>

\* add_event_listener(callback)
AddEventListener(cb) ==
    /\ Len(listeners) < MaxListeners
    /\ Notified([Reach EXCEPT !.listeners = Append(@, cb)],
                WithArg(Returned("add_event_listener", NoSeat, NoDevice, <<>>), cb))

\* register_device(device) with a newly constructed InputDevice.
RegisterDeviceNotified(d, caps) ==
    Notified(RegisterIn(Reach, d, NewDevice(caps)),
             WithArg(Returned("register_device", NoSeat, d, <<>>), caps))

\* assign_device(device_id, seat_id, force)
AssignDeviceNotified(d, s, force) ==
    LET status == AssignCheck(seats, devices, d, s, force) IN
    Notified(AssignIn(Reach, d, s, force),
             WithArg(Call("assign_device", s, d, status, NoSeat, FALSE, <<>>), force))

\* unassign_device(device_id)
UnassignDeviceNotified(d) ==
    IF d \notin DOMAIN devices
    THEN Notified(Reach, Raised("unassign_device", NoSeat, d, "DeviceNotFoundError"))
    ELSE Notified(IF HasSeatId(devices[d]) THEN UnassignIn(Reach, d) ELSE Reach,
                  Returned("unassign_device", NoSeat, d, <<>>))

\* unregister_device(device_id)
UnregisterDeviceNotified(d) ==
    IF d \notin DOMAIN devices
    THEN Notified(Reach, Raised("unregister_device", NoSeat, d, "DeviceNotFoundError"))
    ELSE Notified(UnregisterIn(Reach, d), Returned("unregister_device", NoSeat, d, <<>>))

\* ---------------------------------------------------------- specification
\* uuid4 has handed out fewer than MaxSeats identifiers.
SeatsLeft == next_id < MaxSeats

\* The behaviours of Spec make at most MaxOps calls; the call before the most
\* recent one is not recorded.
\* get_status, lines 594-624: the dict, with each list as a function of the
\* identifiers; names and device types, which the model leaves out of a device,
\* are not in it.
StatusOf(S, D) ==
    [ seats |-> [s \in DOMAIN S |->
                    [ name |-> S[s].name,
                      state |-> S[s].state,
                      cursor_position |-> S[s].cursor,
                      pointer_devices |-> S[s].pointer_devices,
                      keyboard_devices |-> S[s].keyboard_devices,
                      pointer_grabbed |-> IsPointerGrabbed(S[s]),
                      keyboard_grabbed |-> IsKeyboardGrabbed(S[s]) ]],
      devices |-> [d \in DOMAIN D |->
                    [ capabilities |-> D[d].capabilities,
                      seat_id |-> D[d].seat_id ]],
      default_seat_id |-> default_seat_id ]

\* get_status()
GetStatus ==
    /\ Sequential
    /\ last' = WithValue(Returned("get_status", NoSeat, NoDevice, <<>>),
                         StatusOf(seats, devices))
    /\ UNCHANGED <<seats, devices, default_seat_id, display_bounds, next_id>>

Step == nops < MaxOps /\ UNCHANGED prev

Next ==
    \/ \E name \in Names : Step /\ SeatsLeft /\ CreateSeat(name)
    \/ \E s \in SeatIds : Step /\ DestroySeat(s)
    \/ \E s \in SeatIds, st \in SeatStates : Step /\ SetSeatState(s, st)
    \/ \E b \in BoundsChoices : Step /\ SetDisplayBounds(b)
    \/ \E d \in DeviceIds, caps \in CapChoices : Step /\ RegisterDevice(d, caps)
    \/ \E d \in DeviceIds : Step /\ ReRegisterSameDevice(d)
    \/ \E d \in DeviceIds : Step /\ UnregisterDevice(d)
    \/ \E d \in DeviceIds, s \in SeatIds, force \in BOOLEAN : Step /\ AssignDevice(d, s, force)
    \/ \E d \in DeviceIds : Step /\ UnassignDevice(d)
    \/ \E d \in DeviceIds : Step /\ AutoAssignDevice(d)
    \/ \E d \in DeviceIds, delta \in Deltas : Step /\ RoutePointerMotion(d, delta)
    \/ \E d \in DeviceIds : Step /\ RoutePointerButton(d)
    \/ \E d \in DeviceIds : Step /\ RouteKeyboardKey(d)
    \/ \E s \in SeatIds, r \in GrabRequests : Step /\ RequestPointerGrab(s, r)
    \/ \E s \in SeatIds : Step /\ ReleasePointerGrab(s)
    \/ Step /\ GetStatus

Spec == Init /\ [][Next]_vars

\* Seat and device management alone, in longer behaviours.
RegistryStep == nops < MaxRegistryOps /\ UNCHANGED prev

NextRegistry ==
    \/ \E name \in Names : RegistryStep /\ SeatsLeft /\ CreateSeat(name)
    \/ \E s \in SeatIds : RegistryStep /\ DestroySeat(s)
    \/ \E d \in DeviceIds, caps \in CapChoices : RegistryStep /\ RegisterDevice(d, caps)
    \/ \E d \in DeviceIds : RegistryStep /\ ReRegisterSameDevice(d)
    \/ \E d \in DeviceIds : RegistryStep /\ UnregisterDevice(d)
    \/ \E d \in DeviceIds, s \in SeatIds, force \in BOOLEAN :
            RegistryStep /\ AssignDevice(d, s, force)
    \/ \E d \in DeviceIds : RegistryStep /\ UnassignDevice(d)
    \/ \E d \in DeviceIds : RegistryStep /\ AutoAssignDevice(d)

SpecRegistry == Init /\ [][NextRegistry]_vars

\* Assigning and unassigning devices, in behaviours that record the call before
\* the most recent one.
PairStep == nops < MaxPairOps /\ prev' = last

NextPairs ==
    \/ \E name \in Names : PairStep /\ SeatsLeft /\ CreateSeat(name)
    \/ \E s \in SeatIds : PairStep /\ DestroySeat(s)
    \/ \E d \in DeviceIds, caps \in CapChoices : PairStep /\ RegisterDevice(d, caps)
    \/ \E d \in DeviceIds, s \in SeatIds, force \in BOOLEAN :
            PairStep /\ AssignDevice(d, s, force)
    \/ \E d \in DeviceIds : PairStep /\ UnassignDevice(d)

SpecPairs == Init /\ [][NextPairs]_vars

\* One device moved under changing display bounds, in
\* behaviours that record the call before the most recent one.
MotionStep == nops < MaxMotionOps /\ prev' = last

NextMotion ==
    \/ \E name \in Names : MotionStep /\ SeatsLeft /\ CreateSeat(name)
    \/ \E d \in DeviceIds, s \in SeatIds : MotionStep /\ AssignDevice(d, s, FALSE)
    \/ \E d \in DeviceIds, caps \in CapChoices : MotionStep /\ RegisterDevice(d, caps)
    \/ \E d \in DeviceIds : MotionStep /\ AutoAssignDevice(d)
    \/ \E b \in BoundsChoices : MotionStep /\ SetDisplayBounds(b)
    \/ \E d \in DeviceIds, delta \in Deltas : MotionStep /\ RoutePointerMotion(d, delta)

SpecMotion == Init /\ [][NextMotion]_vars

\* Listeners that call the registry from inside their callback.
ReentrantStep == nops < MaxReentrantOps /\ UNCHANGED prev

NextReentrant ==
    \/ \E name \in Names : ReentrantStep /\ SeatsLeft /\ CreateSeat(name)
    \/ \E cb \in ReentrantCallbacks : ReentrantStep /\ AddEventListener(cb)
    \/ \E d \in DeviceIds, caps \in CapChoices : ReentrantStep /\ RegisterDeviceNotified(d, caps)
    \/ \E d \in DeviceIds, s \in SeatIds, force \in BOOLEAN :
            ReentrantStep /\ AssignDeviceNotified(d, s, force)
    \/ \E d \in DeviceIds : ReentrantStep /\ UnassignDeviceNotified(d)
    \/ \E d \in DeviceIds : ReentrantStep /\ UnregisterDeviceNotified(d)

SpecReentrant == Init /\ [][NextReentrant]_vars

\* Seats created, destroyed and looked up by name, with one device around.
SeatStep == nops < MaxSeatOps /\ UNCHANGED prev

NextSeats ==
    \/ \E name \in Names : SeatStep /\ next_id < MaxSeatsNamed /\ CreateSeat(name)
    \/ \E s \in 1..MaxSeatsNamed : SeatStep /\ DestroySeat(s)
    \/ \E name \in Names : SeatStep /\ GetSeatByName(name)
    \/ \E d \in DeviceIds, caps \in CapChoices : SeatStep /\ RegisterDevice(d, caps)
    \/ \E d \in DeviceIds : SeatStep /\ AutoAssignDevice(d)

SpecSeats == Init /\ [][NextSeats]_vars

\* Grabs on seats that come and go, in behaviours that record the call before the
\* most recent one.
GrabStep == nops < MaxGrabOps /\ prev' = last

NextGrabs ==
    \/ \E name \in Names : GrabStep /\ SeatsLeft /\ CreateSeat(name)
    \/ \E s \in SeatIds : GrabStep /\ DestroySeat(s)
    \/ \E s \in SeatIds, r \in GrabRequests : GrabStep /\ RequestPointerGrab(s, r)
    \/ \E s \in SeatIds : GrabStep /\ ReleasePointerGrab(s)
    \/ GrabStep /\ GetActiveGrabs

SpecGrabs == Init /\ [][NextGrabs]_vars

\* Device management on a registry whose callers register listeners; seats are
\* created before the first listener is registered.
\* remove_event_listener(callback)
RemoveEventListener(cb) ==
    Notified([Reach EXCEPT !.listeners = ListenersAfterRemove(@, cb)],
             WithArg(Returned("remove_event_listener", NoSeat, NoDevice, <<>>), cb))

ListenerStep == nops < MaxListenerOps /\ UNCHANGED prev

NextListeners ==
    \/ \E name \in Names : ListenerStep /\ SeatsLeft /\ CreateSeat(name)
    \/ \E cb \in BasicCallbacks : ListenerStep /\ AddEventListener(cb)
    \/ \E cb \in BasicCallbacks : ListenerStep /\ RemoveEventListener(cb)
    \/ \E d \in DeviceIds, caps \in CapChoices : ListenerStep /\ RegisterDeviceNotified(d, caps)
    \/ \E d \in DeviceIds, s \in SeatIds, force \in BOOLEAN :
            ListenerStep /\ AssignDeviceNotified(d, s, force)
    \/ \E d \in DeviceIds : ListenerStep /\ UnassignDeviceNotified(d)
    \/ \E d \in DeviceIds : ListenerStep /\ UnregisterDeviceNotified(d)

SpecListeners == Init /\ [][NextListeners]_vars

\* ------------------------------------------------- concurrent grab requests
\* SeatManager takes no lock, so a second caller can run between the test of
\* line 530 and the write of line 534 of request_pointer_grab.
Callers == {1, 2}

\* request_pointer_grab, lines 528-532, run by caller t: get_seat and the test.
GrabCheck(t, s, r) ==
    /\ pc[t] = "idle"
    /\ IF s \notin DOMAIN seats
       THEN /\ pc' = [pc EXCEPT ![t] = "raised"]
            /\ req' = [req EXCEPT ![t] = [seat |-> s, device |-> NoDevice, r |-> r, granted |-> FALSE]]
       ELSE IF GrabDenied(seats[s])
       THEN /\ pc' = [pc EXCEPT ![t] = "done"]
            /\ req' = [req EXCEPT ![t] = [seat |-> s, device |-> NoDevice, r |-> r, granted |-> FALSE]]
       ELSE /\ pc' = [pc EXCEPT ![t] = "granting"]
            /\ req' = [req EXCEPT ![t] = [seat |-> s, device |-> NoDevice, r |-> r, granted |-> FALSE]]
    /\ UNCHANGED <<seats, devices, default_seat_id, display_bounds, next_id, last, nops>>
    /\ UNCHANGED <<prev, listeners, received>>

\* request_pointer_grab, lines 534-543, run by caller t: the write, the event, `return True`.
GrabInstall(t) ==
    /\ pc[t] = "granting"
    /\ seats' = SeatsAfterGrab(seats, req[t].seat, req[t].r)
    /\ pc' = [pc EXCEPT ![t] = "done"]
    /\ req' = [req EXCEPT ![t].granted = TRUE]
    /\ last' = WithArg(Call("request_pointer_grab", req[t].seat, NoDevice, "ok", NoSeat, TRUE,
                            <<Event("GRAB_STARTED", req[t].seat, NoDevice)>>), req[t].r)
    /\ UNCHANGED <<devices, default_seat_id, display_bounds, next_id, nops>>
    /\ UNCHANGED <<prev, listeners, received>>

\* Two callers of request_pointer_grab on a registry whose seats are only created.
NextConc ==
    \/ \E name \in Names : Step /\ SeatsLeft /\ CreateSeat(name)
    \/ \E t \in Callers, s \in SeatIds, r \in GrabRequests : GrabCheck(t, s, r)
    \/ \E t \in Callers : GrabInstall(t)

SpecConc == Init /\ [][NextConc]_vars

\* What a caller inside assign_device leaves alone.
CallerFrame == UNCHANGED <<default_seat_id, display_bounds, next_id, nops, prev, listeners, received>>

\* assign_device(d, s, force=True), lines 328-337, run by caller t: get_device,
\* get_seat, and the two tests of device.seat_id.
ForcedAssignCheck(t, d, s) ==
    /\ pc[t] = "idle"
    /\ req' = [req EXCEPT ![t].seat = s, ![t].device = d]
    /\ pc' = [pc EXCEPT ![t] =
                 IF d \notin DOMAIN devices \/ s \notin DOMAIN seats THEN "raised"
                 ELSE IF HasSeatId(devices[d]) THEN "unassigning"
                 ELSE "assigning"]
    /\ UNCHANGED <<seats, devices, last>>
    /\ CallerFrame

\* assign_device, line 338, run by caller t: unassign_device(device_id), which
\* returns at once when the device has no seat_id by now.
ForcedAssignUnassign(t) ==
    /\ pc[t] = "unassigning"
    /\ LET d == req[t].device IN
       IF HasSeatId(devices[d])
       THEN /\ seats' = SeatsAfterUnassign(seats, devices, d)
            /\ devices' = DevicesAfterUnassign(devices, d)
            /\ last' = Returned("unassign_device", NoSeat, d, UnassignEvents(devices, d))
       ELSE UNCHANGED <<seats, devices, last>>
    /\ pc' = [pc EXCEPT ![t] = "assigning"]
    /\ UNCHANGED req
    /\ CallerFrame

\* assign_device, line 341, run by caller t: device.seat_id = seat_id.
ForcedAssignWrite(t) ==
    /\ pc[t] = "assigning"
    /\ devices' = DevicesAfterAssign(devices, req[t].device, req[t].seat)
    /\ pc' = [pc EXCEPT ![t] = "adding"]
    /\ UNCHANGED <<seats, last, req>>
    /\ CallerFrame

\* assign_device, lines 343-353, run by caller t: the seat's sets, the event, return.
ForcedAssignAdd(t) ==
    /\ pc[t] = "adding"
    /\ seats' = SeatsAfterAssign(seats, devices[req[t].device], req[t].device, req[t].seat)
    /\ pc' = [pc EXCEPT ![t] = "done"]
    /\ last' = WithArg(Returned("assign_device", req[t].seat, req[t].device,
                                <<Event("DEVICE_ASSIGNED", req[t].seat, req[t].device)>>), TRUE)
    /\ UNCHANGED <<devices, req>>
    /\ CallerFrame

\* The registry is set up by one caller; then two callers are inside
\* assign_device(., ., force=True) at the same time.
Quiet == pc = Idle

NextConcAssign ==
    \/ \E name \in Names : Step /\ Quiet /\ SeatsLeft /\ CreateSeat(name)
    \/ \E d \in DeviceIds, caps \in CapChoices :
            Step /\ Quiet /\ d \notin DOMAIN devices /\ RegisterDevice(d, caps)
    \/ \E d \in DeviceIds, s \in SeatIds : Step /\ Quiet /\ AssignDevice(d, s, FALSE)
    \/ \E t \in Callers, d \in DeviceIds, s \in SeatIds : ForcedAssignCheck(t, d, s)
    \/ \E t \in Callers : ForcedAssignUnassign(t)
    \/ \E t \in Callers : ForcedAssignWrite(t)
    \/ \E t \in Callers : ForcedAssignAdd(t)

SpecConcAssign == Init /\ [][NextConcAssign]_vars

\* ================================================================= claims
\* The registry state a call can change.
core == <<seats, devices, default_seat_id, display_bounds, next_id>>

Origin == [x |-> 0, y |-> 0]
RouteOps == {"route_pointer_motion", "route_pointer_button", "route_keyboard_key"}

\* C1: each device identifier is in at most one seat's pointer_devices set and in
\* at most one seat's keyboard_devices set, in every reachable state.
C1_DeviceInAtMostOneSeat ==
    \A d \in DeviceIds : \A a, b \in DOMAIN seats :
        \/ a = b
        \/ /\ ~(d \in seats[a].pointer_devices /\ d \in seats[b].pointer_devices)
           /\ ~(d \in seats[a].keyboard_devices /\ d \in seats[b].keyboard_devices)

\* C2: every registered device whose seat_id is not None names a seat that exists,
\* in every reachable state.
C2_SeatIdNamesExistingSeat ==
    \A d \in DOMAIN devices :
        devices[d].seat_id # NoSeat => devices[d].seat_id \in DOMAIN seats

\* C3: destroy_seat on the default seat raises SeatManagerError, changes nothing and
\* emits nothing; the default seat always exists and its identifier never changes.
C3_DefaultSeatProtected ==
    [][ /\ default_seat_id' = default_seat_id
        /\ default_seat_id' \in DOMAIN seats'
        /\ (last'.op = "destroy_seat" /\ last'.seat = default_seat_id) =>
              /\ last'.status = "SeatManagerError"
              /\ last'.events = <<>>
              /\ UNCHANGED core ]_vars

\* A destroy_seat of the default seat was refused on a registry with a second seat
\* and a registered device.
C3_Witness ==
    /\ last.op = "destroy_seat"
    /\ last.seat = default_seat_id
    /\ last.status = "SeatManagerError"
    /\ Cardinality(DOMAIN seats) > 1
    /\ DOMAIN devices # {}

\* C4: request_pointer_grab on a seat that has an active pointer grab returns False,
\* leaves the stored grab and all other registry state unchanged and emits no event.
C4_SecondGrabDenied ==
    [][ ( /\ last'.op = "request_pointer_grab"
          /\ last'.seat \in DOMAIN seats
          /\ IsPointerGrabbed(seats[last'.seat]) ) =>
              /\ last'.status = "ok"
              /\ ~last'.granted
              /\ last'.events = <<>>
              /\ UNCHANGED core ]_vars

\* Another client's request with an active mode was denied on a grabbed seat.
C4_Witness ==
    /\ last.op = "request_pointer_grab"
    /\ last.status = "ok"
    /\ ~last.granted
    /\ IsActive(last.arg)
    /\ last.seat \in DOMAIN seats
    /\ \E g \in seats[last.seat].pointer_grab :
          IsActive(g) /\ g.client_id # last.arg.client_id /\ g.mode # last.arg.mode

\* C5: whenever request_pointer_grab returns True, whatever the mode, the seat's
\* is_pointer_grabbed is true right afterwards and the stored grab is the caller's.
C5_GrantedMeansGrabbed ==
    (last.op = "request_pointer_grab" /\ last.granted) =>
        /\ last.seat \in DOMAIN seats
        /\ IsPointerGrabbed(seats[last.seat])
        /\ \A g \in seats[last.seat].pointer_grab : g.client_id = last.arg.client_id

\* C6: request_pointer_grab and release_pointer_grab on seat A change no seat B # A
\* (grab, cursor, state, device sets) and no device record.
C6_GrabsLeaveOtherSeatsAlone ==
    [][ last'.op \in {"request_pointer_grab", "release_pointer_grab"} =>
            /\ devices' = devices
            /\ DOMAIN seats' = DOMAIN seats
            /\ \A b \in DOMAIN seats \ {last'.seat} : seats'[b] = seats[b] ]_vars

\* A grab was granted on one seat while another seat held another client's grab.
C6_Witness ==
    /\ last.op = "request_pointer_grab"
    /\ last.granted
    /\ IsActive(last.arg)
    /\ \E b \in DOMAIN seats \ {last.seat} :
          \E g \in seats[b].pointer_grab : IsActive(g) /\ g.client_id # last.arg.client_id

\* C7: of two concurrent request_pointer_grab calls with active modes on the same
\* seat, which has no active grab, at most one returns True.
C7_AtMostOneConcurrentGrant ==
    ~ ( /\ pc[1] = "done" /\ pc[2] = "done"
        /\ req[1].seat = req[2].seat
        /\ IsActive(req[1].r) /\ IsActive(req[2].r)
        /\ req[1].granted /\ req[2].granted )

\* C8: a call that raises leaves seats, devices, device sets, cursors, grabs and
\* display bounds as they were and emits no event; the calls on unknown seats and
\* devices, on the default seat and on assigned devices without force do raise.
C8_FailedCallsChangeNothing ==
    [][ LET c == last'
            unknownSeat == c.seat \notin DOMAIN seats
            unknownDevice == c.device \notin DOMAIN devices
        IN  /\ c.status # "ok" => (UNCHANGED core /\ c.events = <<>>)
            /\ ( /\ c.op \in {"destroy_seat", "set_seat_state",
                              "request_pointer_grab", "release_pointer_grab"}
                 /\ unknownSeat ) => c.status = "SeatNotFoundError"
            /\ (c.op = "destroy_seat" /\ c.seat = default_seat_id) =>
                    c.status = "SeatManagerError"
            /\ ( /\ c.op \in {"unregister_device", "unassign_device",
                              "assign_device", "auto_assign_device"}
                 /\ unknownDevice ) => c.status = "DeviceNotFoundError"
            /\ ( /\ c.op \in {"assign_device", "auto_assign_device"}
                 /\ ~unknownDevice ) =>
                    c.status = IF unknownSeat THEN "SeatNotFoundError"
                               ELSE IF devices[c.device].seat_id # NoSeat /\ c.arg = FALSE
                               THEN "DeviceAlreadyAssignedError"
                               ELSE "ok" ]_vars

\* A forced assign_device of an assigned device to an unknown seat raised.
C8_Witness ==
    /\ last.op = "assign_device"
    /\ last.status = "SeatNotFoundError"
    /\ last.arg = TRUE
    /\ last.device \in DOMAIN devices
    /\ devices[last.device].seat_id \in DOMAIN seats
    /\ last.device \in seats[devices[last.device].seat_id].pointer_devices

\* C9: a routed route_pointer_motion changes the cursor position of the device's
\* seat and nothing else.
C9_MotionMovesOnlyItsSeat ==
    [][ (last'.op = "route_pointer_motion" /\ last'.ret # NoSeat) =>
            /\ last'.device \in DOMAIN devices
            /\ last'.ret = devices[last'.device].seat_id
            /\ devices' = devices
            /\ display_bounds' = display_bounds
            /\ DOMAIN seats' = DOMAIN seats
            /\ \A b \in DOMAIN seats :
                  seats'[b] = IF b = last'.ret
                              THEN [seats[b] EXCEPT !.cursor = seats'[b].cursor]
                              ELSE seats[b] ]_vars

\* A motion moved one seat's cursor off the origin while another seat exists.
C9_Witness ==
    /\ last.op = "route_pointer_motion"
    /\ last.ret \in DOMAIN seats
    /\ seats[last.ret].cursor # Origin
    /\ \E b \in DOMAIN seats : b # last.ret /\ seats[b].cursor = Origin

MinX(b) == b.x
MinY(b) == b.y
MaxX(b) == b.x + b.width - 1
MaxY(b) == b.y + b.height - 1
InRangeX(p, b) == MinX(b) <= p.x /\ p.x <= MaxX(b)
InRangeY(p, b) == MinY(b) <= p.y /\ p.y <= MaxY(b)

\* C11: after every route_pointer_motion that returns a seat id, whatever bounds
\* set_display_bounds installed, that seat's cursor has
\* bounds.x <= x <= bounds.x + bounds.width - 1 and
\* bounds.y <= y <= bounds.y + bounds.height - 1.
C11_CursorInsideBounds ==
    (last.op = "route_pointer_motion" /\ last.ret # NoSeat) =>
        /\ last.ret \in DOMAIN seats
        /\ InRangeX(seats[last.ret].cursor, display_bounds)
        /\ InRangeY(seats[last.ret].cursor, display_bounds)

\* Two consecutive routed route_pointer_motion calls, c and then c2, with the same
\* device and the same delta.
SameMotionAgain(c, c2) ==
    /\ c.op = "route_pointer_motion" /\ c.ret # NoSeat
    /\ c2.op = "route_pointer_motion" /\ c2.ret = c.ret
    /\ c2.device = c.device
    /\ c2.arg = c.arg

Listed(seat, d) == d \in seat.pointer_devices \cup seat.keyboard_devices

\* Seat record `seat` lists d exactly as the capabilities of `dev` dictate.
ListedByCapability(seat, dev, d) ==
    /\ d \in seat.pointer_devices <=> "POINTER" \in dev.capabilities
    /\ d \in seat.keyboard_devices <=> "KEYBOARD" \in dev.capabilities

\* C13: assign_device(d, s, force=False) on a registered device whose seat_id is
\* not None raises DeviceAlreadyAssignedError for every existing seat s, the seat
\* d is on included; d keeps its seat and every device set is unchanged.
C13_AssignedDeviceRefused ==
    [][ ( /\ last'.op = "assign_device"
          /\ last'.arg = FALSE
          /\ last'.device \in DOMAIN devices
          /\ devices[last'.device].seat_id # NoSeat
          /\ last'.seat \in DOMAIN seats ) =>
              /\ last'.status = "DeviceAlreadyAssignedError"
              /\ last'.events = <<>>
              /\ UNCHANGED core ]_vars

\* An unforced assign_device to the seat the device is already on was refused.
C13_Witness ==
    /\ last.op = "assign_device"
    /\ last.status = "DeviceAlreadyAssignedError"
    /\ last.arg = FALSE
    /\ last.device \in DOMAIN devices
    /\ devices[last.device].seat_id = last.seat
    /\ last.seat \in DOMAIN seats
    /\ Listed(seats[last.seat], last.device)

\* C14: after assign_device(d, B, force=True) succeeds on a device that was on a
\* seat A (A = B allowed), d.seat_id = B, no seat other than B lists d, and B
\* lists d exactly as d's capabilities dictate.
C14_ForcedAssignMovesDevice ==
    ( /\ last.op = "assign_device"
      /\ last.status = "ok"
      /\ last.arg = TRUE
      /\ Len(last.events) = 2 ) =>
          /\ devices[last.device].seat_id = last.seat
          /\ \A b \in DOMAIN seats \ {last.seat} : ~Listed(seats[b], last.device)
          /\ ListedByCapability(seats[last.seat], devices[last.device], last.device)

\* C15: after a successful assign_device(d, s) of a device whose seat_id was None,
\* d.seat_id = s, s lists d in pointer_devices iff d has POINTER and in
\* keyboard_devices iff d has KEYBOARD, and no other seat's sets change.
C15_AssignFollowsCapabilities ==
    [][ ( /\ last'.op = "assign_device"
          /\ last'.status = "ok"
          /\ devices[last'.device].seat_id = NoSeat ) =>
              /\ devices'[last'.device].seat_id = last'.seat
              /\ ListedByCapability(seats'[last'.seat], devices'[last'.device], last'.device)
              /\ \A b \in DOMAIN seats \ {last'.seat} :
                    /\ seats'[b].pointer_devices = seats[b].pointer_devices
                    /\ seats'[b].keyboard_devices = seats[b].keyboard_devices ]_vars

\* C16: unassign_device on a device with a seat_id clears the seat_id, takes the
\* identifier out of both sets of its seat and emits DEVICE_UNASSIGNED; an
\* unassign_device of the same device right after a successful one raises
\* nothing, changes nothing and emits nothing.
C16_UnassignIdempotent ==
    [][ LET d == last'.device IN
        /\ ( /\ last'.op = "unassign_device"
              /\ d \in DOMAIN devices
              /\ devices[d].seat_id # NoSeat ) =>
                  /\ last'.status = "ok"
                  /\ devices'[d].seat_id = NoSeat
                  /\ devices[d].seat_id \in DOMAIN seats =>
                        ~Listed(seats'[devices[d].seat_id], d)
                  /\ last'.events = <<Event("DEVICE_UNASSIGNED", devices[d].seat_id, d)>>
        /\ ( /\ last.op = "unassign_device" /\ last.status = "ok"
              /\ last'.op = "unassign_device" /\ d = last.device ) =>
                  /\ last'.status = "ok"
                  /\ last'.events = <<>>
                  /\ UNCHANGED core ]_vars

\* unassign_device was called twice in a row on a device that was on a seat: the
\* first call emitted DEVICE_UNASSIGNED, the second one nothing.
C16_Witness ==
    /\ prev.op = "unassign_device"
    /\ Len(prev.events) = 1
    /\ last.op = "unassign_device"
    /\ last.device = prev.device
    /\ last.status = "ok"
    /\ last.events = <<>>
    /\ last.device \in DOMAIN devices
    /\ devices[last.device].seat_id = NoSeat
    /\ devices[last.device].capabilities = {"POINTER", "KEYBOARD"}

\* C17: after destroy_seat(s) succeeds, s is not in the registry, the registered
\* device identifiers are the same, and every device whose seat_id was s has
\* seat_id None.
C17_DestroyUnassignsDevices ==
    [][ (last'.op = "destroy_seat" /\ last'.status = "ok") =>
            /\ last'.seat \notin DOMAIN seats'
            /\ DOMAIN devices' = DOMAIN devices
            /\ \A d \in DOMAIN devices :
                  devices[d].seat_id = last'.seat => devices'[d].seat_id = NoSeat ]_vars

\* C18: after unregister_device(d) succeeds, d is not in the device map and no
\* seat lists d, in whatever reachable state it was called.
C18_UnregisteredDeviceListedNowhere ==
    (last.op = "unregister_device" /\ last.status = "ok") =>
        /\ last.device \notin DOMAIN devices
        /\ \A s \in DOMAIN seats : ~Listed(seats[s], last.device)

\* ---------------------------------------------------------------- C19, C20
\* The calls that emit to the registered listeners.
NotifyingOps == {"register_device", "assign_device", "unassign_device", "unregister_device"}

\* What callback cb was given during the most recent step.
NewlyReceived(cb) == SubSeq(received'[cb], Len(received[cb]) + 1, Len(received'[cb]))

\* The number of times e occurs in the sequence q.
Occurrences(q, e) == Cardinality({k \in DOMAIN q : q[k] = e})

\* C19: a listener that raises does not keep the listeners after it from being
\* given the event, and the error does not reach the caller: the call ends as it
\* would without listeners, with its change applied.
C19_ListenerErrorsIsolated ==
    [][ last'.op \in NotifyingOps =>
            LET d == last'.device IN
            /\ \A i \in DOMAIN listeners : \A k \in DOMAIN last'.events :
                  Occurrences(NewlyReceived(listeners[i]), last'.events[k]) >= 1
            /\ last'.op = "register_device" =>
                  /\ last'.status = "ok"
                  /\ d \in DOMAIN devices'
                  /\ devices'[d].capabilities = last'.arg
            /\ last'.op = "assign_device" =>
                  /\ last'.status = AssignCheck(seats, devices, d, last'.seat, last'.arg)
                  /\ last'.status = "ok" =>
                        /\ devices'[d].seat_id = last'.seat
                        /\ HasCapability(devices[d], "POINTER") =>
                              d \in seats'[last'.seat].pointer_devices
                        /\ HasCapability(devices[d], "KEYBOARD") =>
                              d \in seats'[last'.seat].keyboard_devices
            /\ (last'.op = "unassign_device" /\ d \in DOMAIN devices) =>
                  /\ last'.status = "ok"
                  /\ devices'[d].seat_id = NoSeat
            /\ (last'.op = "unregister_device" /\ d \in DOMAIN devices) =>
                  /\ last'.status = "ok"
                  /\ d \notin DOMAIN devices' ]_vars

\* register_device returned with the device registered although the first of two
\* listeners raised; the second listener was given DEVICE_ADDED.
C19_Witness ==
    /\ last.op = "register_device"
    /\ last.status = "ok"
    /\ listeners = <<"bad", "rec">>
    /\ last.device \in DOMAIN devices
    /\ received["bad"] # <<>>
    /\ received["rec"] # <<>>
    /\ received["rec"][Len(received["rec"])] = Event("DEVICE_ADDED", NoSeat, last.device)

\* C20: every listener is given the events of a call in the same order, the
\* order in which the operations were applied, also when a listener calls the
\* registry from inside its callback.
C20_SameOrderForEveryListener ==
    [][ last'.op \in NotifyingOps =>
            \A cb \in Callbacks :
                Occurrences(listeners, cb) = 1 => NewlyReceived(cb) = last'.events ]_vars

\* ---------------------------------------------------------------- C21-C30
\* The call c, made in the current state, is one of the successful state-changing
\* operations C21 lists.
StateChangingCall(c) ==
    \/ c.op \in {"create_seat", "register_device", "set_display_bounds"}
    \/ /\ c.op \in {"destroy_seat", "set_seat_state", "unregister_device", "assign_device"}
       /\ c.status = "ok"
    \/ /\ c.op = "unassign_device"
       /\ c.device \in DOMAIN devices
       /\ devices[c.device].seat_id # NoSeat
    \/ c.op \in RouteOps /\ c.ret # NoSeat
    \/ c.op = "request_pointer_grab" /\ c.granted
    \/ /\ c.op = "release_pointer_grab"
       /\ c.seat \in DOMAIN seats
       /\ IsPointerGrabbed(seats[c.seat])

OwnEventType(op) ==
    CASE op = "create_seat" -> "SEAT_CREATED"
      [] op = "destroy_seat" -> "SEAT_DESTROYED"
      [] op = "set_seat_state" -> "SEAT_STATE_CHANGED"
      [] op = "register_device" -> "DEVICE_ADDED"
      [] op = "unregister_device" -> "DEVICE_REMOVED"
      [] op = "assign_device" -> "DEVICE_ASSIGNED"
      [] op = "unassign_device" -> "DEVICE_UNASSIGNED"
      [] op = "route_pointer_motion" -> "POINTER_MOTION"
      [] op = "route_pointer_button" -> "POINTER_BUTTON"
      [] op = "route_keyboard_key" -> "KEYBOARD_KEY"
      [] op = "request_pointer_grab" -> "GRAB_STARTED"
      [] op = "release_pointer_grab" -> "GRAB_ENDED"
      [] OTHER -> "none"

\* The call c, made in the current state, first unassigns its device.
UnassignsFirst(c) ==
    /\ c.op \in {"assign_device", "unregister_device"}
    /\ c.device \in DOMAIN devices
    /\ devices[c.device].seat_id # NoSeat

NonEmpty(b) == b.width >= 1 /\ b.height >= 1

\* C22: set_display_bounds replaces the bounds and changes nothing else, cursors
\* outside the new rectangle included; a seat's cursor changes only in a routed
\* route_pointer_motion of that seat, which brings it inside the bounds in force,
\* and the other seats' cursors stay where they were.
C22_BoundsTakeEffectOnNextMotion ==
    [][ /\ last'.op = "set_display_bounds" =>
              /\ display_bounds' = last'.arg
              /\ last'.status = "ok"
              /\ UNCHANGED <<seats, devices, default_seat_id, next_id>>
        /\ \A s \in DOMAIN seats \cap DOMAIN seats' :
              seats'[s].cursor # seats[s].cursor =>
                  last'.op = "route_pointer_motion" /\ last'.ret = s
        /\ (last'.op = "route_pointer_motion" /\ last'.ret # NoSeat /\ NonEmpty(display_bounds)) =>
              /\ InRangeX(seats'[last'.ret].cursor, display_bounds)
              /\ InRangeY(seats'[last'.ret].cursor, display_bounds) ]_vars

\* The first motion after set_display_bounds brought its seat's cursor from outside
\* the new rectangle to inside it, while another seat's cursor is still outside.
C22_Witness ==
    /\ prev.op = "set_display_bounds"
    /\ last.op = "route_pointer_motion"
    /\ last.ret \in DOMAIN seats
    /\ ~(InRangeX(last.from, display_bounds) /\ InRangeY(last.from, display_bounds))
    /\ InRangeX(seats[last.ret].cursor, display_bounds)
    /\ InRangeY(seats[last.ret].cursor, display_bounds)
    /\ \E b \in DOMAIN seats \ {last.ret} : ~InRangeX(seats[b].cursor, display_bounds)

\* C23: release_pointer_grab on a seat with an active grab clears it and emits
\* GRAB_ENDED, and a request_pointer_grab with an active mode on a seat without
\* an active grab, so also right after the release, is granted to any client;
\* release_pointer_grab on a seat that is not grabbed changes nothing and emits
\* nothing.
C23_ReleaseThenGrant ==
    [][ LET c == last'
            s == last'.seat
        IN  /\ (c.op = "release_pointer_grab" /\ s \in DOMAIN seats) =>
                  /\ c.status = "ok"
                  /\ IF IsPointerGrabbed(seats[s])
                     THEN /\ ~IsPointerGrabbed(seats'[s])
                          /\ seats'[s].pointer_grab = {}
                          /\ c.events = <<Event("GRAB_ENDED", s, NoDevice)>>
                     ELSE UNCHANGED core /\ c.events = <<>>
            /\ ( /\ c.op = "request_pointer_grab"
                  /\ IsActive(c.arg)
                  /\ s \in DOMAIN seats
                  /\ ~IsPointerGrabbed(seats[s]) ) =>
                      /\ c.granted
                      /\ seats'[s].pointer_grab = {c.arg}
            /\ ( /\ last.op = "release_pointer_grab" /\ last.status = "ok"
                  /\ c.op = "request_pointer_grab" /\ s = last.seat
                  /\ IsActive(c.arg) ) => c.granted ]_vars

\* A request was granted on a seat right after the release of its active grab.
C23_Witness ==
    /\ prev.op = "release_pointer_grab"
    /\ prev.events = <<Event("GRAB_ENDED", prev.seat, NoDevice)>>
    /\ last.op = "request_pointer_grab"
    /\ last.seat = prev.seat
    /\ last.granted
    /\ IsActive(last.arg)
    /\ IsPointerGrabbed(seats[last.seat])

\* C24: get_active_grabs returns a mapping whose keys are exactly the existing
\* seats with is_pointer_grabbed true, each mapped to the mode of its stored grab.
C24_ActiveGrabsExact ==
    last.op = "get_active_grabs" =>
        /\ DOMAIN last.value = {s \in DOMAIN seats : IsPointerGrabbed(seats[s])}
        /\ \A s \in DOMAIN last.value : \A g \in seats[s].pointer_grab : last.value[s] = g.mode

\* get_active_grabs listed a grabbed seat and left out a seat whose stored grab has
\* mode NONE.
C24_Witness ==
    /\ last.op = "get_active_grabs"
    /\ DOMAIN last.value # {}
    /\ \E s \in DOMAIN seats : seats[s].pointer_grab # {} /\ s \notin DOMAIN last.value

SeatsNamed(name) == {s \in DOMAIN seats : seats[s].name = name}

\* C26: get_seat_by_name never raises; it returns the earliest created of the
\* existing seats of that name, and None when no existing seat has the name.
C26_FirstSeatOfThatName ==
    last.op = "get_seat_by_name" =>
        /\ last.status = "ok"
        /\ IF SeatsNamed(last.arg) = {}
           THEN last.value = NoSeat
           ELSE /\ last.value \in SeatsNamed(last.arg)
                /\ \A s \in SeatsNamed(last.arg) : last.value <= s

\* get_seat_by_name returned the earlier of two existing seats of one name after
\* another seat had been destroyed.
C26_Witness ==
    /\ last.op = "get_seat_by_name"
    /\ Cardinality(SeatsNamed(last.arg)) = 2
    /\ last.value = default_seat_id
    /\ next_id > Cardinality(DOMAIN seats)

\* C27: set_seat_state on a known seat never raises, replaces only that seat's
\* state and emits one SEAT_STATE_CHANGED whose data are the old and the new
\* state, also when the two are equal; the seat's cursor, device sets and grabs,
\* every other seat and every device are unchanged.
C27_SetSeatStateOnlyState ==
    [][ (last'.op = "set_seat_state" /\ last'.seat \in DOMAIN seats) =>
            LET s == last'.seat IN
            /\ last'.status = "ok"
            /\ DOMAIN seats' = DOMAIN seats
            /\ seats'[s] = [seats[s] EXCEPT !.state = last'.arg]
            /\ \A x \in DOMAIN seats \ {s} : seats'[x] = seats[x]
            /\ UNCHANGED <<devices, default_seat_id, display_bounds, next_id>>
            /\ last'.events = <<Event("SEAT_STATE_CHANGED", s, NoDevice)>>
            /\ last'.data = StateChangeData(seats[s].state, last'.arg) ]_vars

\* set_seat_state gave a seat holding a device the state it already had, with a
\* second seat in the registry.
C27_Witness ==
    /\ last.op = "set_seat_state"
    /\ last.status = "ok"
    /\ last.data = StateChangeData(last.arg, last.arg)
    /\ Cardinality(DOMAIN seats) = 2
    /\ seats[last.seat].pointer_devices \cup seats[last.seat].keyboard_devices # {}

\* The event type of a routed button or key call.
RoutedEventType(op) ==
    IF op = "route_pointer_button" THEN "POINTER_BUTTON" ELSE "KEYBOARD_KEY"

\* C29: a routed route_pointer_button or route_keyboard_key returns the id of
\* the seat the device is assigned to, emits one POINTER_BUTTON / KEYBOARD_KEY
\* event for that seat and device, and changes no registry state.
C29_RoutedButtonKeyChangesNothing ==
    [][ (/\ last'.op \in {"route_pointer_button", "route_keyboard_key"}
         /\ last'.ret # NoSeat) =>
            LET d == last'.device IN
            /\ last'.status = "ok"
            /\ d \in DOMAIN devices
            /\ last'.ret = devices[d].seat_id
            /\ last'.ret \in DOMAIN seats
            /\ last'.events = <<Event(RoutedEventType(last'.op), devices[d].seat_id, d)>>
            /\ UNCHANGED core ]_vars

\* A key was routed to a seat other than the default seat.
C29_Witness ==
    /\ last.op = "route_keyboard_key"
    /\ last.ret # NoSeat
    /\ last.ret # default_seat_id
    /\ Len(last.events) = 1

\* C28: after remove_event_listener(cb) has returned, cb is not invoked for the
\* event of the next registry operation, whatever add_event_listener calls came
\* before (cb added more than once included); removing a callback that is not
\* registered changes nothing.
C28_RemovedListenerNotInvoked ==
    [][ /\ (last.op = "remove_event_listener" /\ last'.op \in NotifyingOps) =>
              NewlyReceived(last.arg) = <<>>
        /\ (/\ last'.op = "remove_event_listener"
            /\ \A k \in 1..Len(listeners) : listeners[k] # last'.arg) =>
              /\ last'.status = "ok"
              /\ UNCHANGED <<core, listeners, received>> ]_vars

\* C28, for a callback registered at most once: after remove_event_listener(cb)
\* the callback is not in the list and is not invoked by the next operation.
C28_RemovedOnceRegisteredListener ==
    [][ /\ (/\ last'.op = "remove_event_listener"
            /\ Occurrences(listeners, last'.arg) <= 1) =>
              Occurrences(listeners', last'.arg) = 0
        /\ (/\ last.op = "remove_event_listener"
            /\ Occurrences(listeners, last.arg) = 0
            /\ last'.op \in NotifyingOps) =>
              NewlyReceived(last.arg) = <<>> ]_vars

\* The events handed to callback cb in this step are its registrations times
\* `first`, then its registrations times `second`, and nothing else.
DeliveredInOrder(cb, first, second) ==
    LET r == NewlyReceived(cb)
        n == Occurrences(listeners, cb) IN
    /\ Len(r) = 2 * n
    /\ \A i \in 1..n : r[i] = first /\ r[n + i] = second

\* C30: a forced assign_device of a device on seat A to seat B delivers
\* DEVICE_UNASSIGNED (seat A) before DEVICE_ASSIGNED (seat B), and
\* unregister_device of an assigned device delivers DEVICE_UNASSIGNED before
\* DEVICE_REMOVED, to every listener.
C30_SubStepEventsFirst ==
    [][ /\ (/\ last'.op = "assign_device"
            /\ last'.status = "ok"
            /\ last'.arg = TRUE
            /\ last'.device \in DOMAIN devices
            /\ HasSeatId(devices[last'.device])) =>
              LET d == last'.device
                  U == Event("DEVICE_UNASSIGNED", devices[d].seat_id, d)
                  A == Event("DEVICE_ASSIGNED", last'.seat, d) IN
              /\ last'.events = <<U, A>>
              /\ \A cb \in Callbacks : DeliveredInOrder(cb, U, A)
        /\ (/\ last'.op = "unregister_device"
            /\ last'.status = "ok"
            /\ HasSeatId(devices[last'.device])) =>
              LET d == last'.device
                  U == Event("DEVICE_UNASSIGNED", devices[d].seat_id, d)
                  R == Event("DEVICE_REMOVED", NoSeat, d) IN
              /\ last'.events = <<U, R>>
              /\ \A cb \in Callbacks : DeliveredInOrder(cb, U, R) ]_vars

\* A forced assign_device moved a device from one seat to another while a
\* listener was registered.
C30_Witness ==
    /\ last.op = "assign_device"
    /\ last.arg = TRUE
    /\ Len(last.events) = 2
    /\ last.events[1].type = "DEVICE_UNASSIGNED"
    /\ last.events[2].type = "DEVICE_ASSIGNED"
    /\ last.events[1].seat_id # last.events[2].seat_id
    /\ listeners # <<>>
    /\ \E cb \in Callbacks : Len(received[cb]) >= 2

\* Device d is in the device sets of the seat its seat_id names and of no other.
OnlyOnItsSeat(S, D, d) == \A s \in DOMAIN S : Listed(S[s], d) => D[d].seat_id = s

\* C31: a listener that calls assign_device for the same device from inside the
\* DEVICE_UNASSIGNED callback delivered during a forced assign_device cannot
\* break assignment consistency: when the outer call has returned, the device's
\* identifier is in the device sets of the one seat named by its seat_id only.
C31_ReentrantAssignKeepsConsistency ==
    [][ (/\ last'.op = "assign_device"
         /\ last'.status = "ok"
         /\ last'.arg = TRUE
         /\ last'.device \in DOMAIN devices
         /\ HasSeatId(devices[last'.device])
         /\ OnlyOnItsSeat(seats, devices, last'.device)
         /\ Occurrences(listeners, "back") > 0) =>
            /\ devices'[last'.device].seat_id \in DOMAIN seats'
            /\ OnlyOnItsSeat(seats', devices', last'.device) ]_vars

\* C33: every listener that is registered when an event is emitted is invoked
\* exactly once per registration for that event, even if an earlier listener
\* removes itself from the registry during its own callback.  Checked for
\* DEVICE_ADDED, the first event register_device emits.
C33_EveryRegisteredListenerInvoked ==
    [][ (last'.op = "register_device" /\ last'.status = "ok") =>
            \A cb \in Callbacks :
                Occurrences(NewlyReceived(cb), Event("DEVICE_ADDED", NoSeat, last'.device))
                    = Occurrences(listeners, cb) ]_vars

\* C32: two assign_device(d, ., force=True) calls for the same device issued by
\* concurrent callers with different target seats B and C are observed as
\* atomic: when both have returned, d.seat_id is B or C and d's identifier is in
\* the device sets of that seat only.
C32_ConcurrentForcedAssignAtomic ==
    (/\ pc[1] = "done" /\ pc[2] = "done"
     /\ req[1].device = req[2].device
     /\ req[1].seat # req[2].seat) =>
        LET d == req[1].device IN
        /\ devices[d].seat_id \in {req[1].seat, req[2].seat}
        /\ OnlyOnItsSeat(seats, devices, d)
        /\ ListedByCapability(seats[devices[d].seat_id], devices[d], d)

\* C34: in every reachable state, every identifier in a seat's pointer_devices
\* or keyboard_devices set is the identifier of a registered device whose
\* seat_id is that seat's id.
C34_SeatSetsNameAssignedDevices ==
    \A s \in DOMAIN seats :
        \A d \in seats[s].pointer_devices \cup seats[s].keyboard_devices :
            /\ d \in DOMAIN devices
            /\ devices[d].seat_id = s

\* C35: routing is decided by the device's seat_id alone: the three route_*
\* calls succeed for every registered device assigned to an ACTIVE seat,
\* whatever its capabilities and whether or not the seat lists it, and
\* route_pointer_motion then moves and clamps that seat's cursor.
C35_RoutingBySeatIdAlone ==
    [][ (/\ last'.op \in RouteOps
         /\ last'.device \in DOMAIN devices
         /\ devices[last'.device].seat_id \in DOMAIN seats
         /\ seats[devices[last'.device].seat_id].state = "ACTIVE") =>
            LET d == last'.device
                s == devices[d].seat_id IN
            /\ last'.status = "ok"
            /\ last'.ret = s
            /\ last'.events = <<Event(OwnEventType(last'.op), s, d)>>
            /\ last'.op = "route_pointer_motion" =>
                  seats'[s].cursor = Clamp(Move(seats[s].cursor, last'.arg[1], last'.arg[2]),
                                           MinX(display_bounds), MinY(display_bounds),
                                           MaxX(display_bounds), MaxY(display_bounds)) ]_vars

\* A device without the POINTER capability that its seat does not list moved
\* the seat's cursor through route_pointer_motion.
C35_Witness ==
    /\ last.op = "route_pointer_motion"
    /\ last.ret \in DOMAIN seats
    /\ last.device \in DOMAIN devices
    /\ ~HasCapability(devices[last.device], "POINTER")
    /\ ~Listed(seats[last.ret], last.device)
    /\ seats[last.ret].cursor # last.from

EmittedFor(c, type, s) ==
    \E k \in DOMAIN c.events : c.events[k].type = type /\ c.events[k].seat_id = s

\* C37: in the event stream of one seat GRAB_STARTED and GRAB_ENDED alternate,
\* for any sequence of request_pointer_grab calls (any mode) and
\* release_pointer_grab calls.  Stated for two calls in a row: they do not both
\* emit GRAB_STARTED for the same seat, nor both GRAB_ENDED.
C37_GrabEventsAlternate ==
    [][ \A s \in SeatIds :
          /\ ~(EmittedFor(last, "GRAB_STARTED", s) /\ EmittedFor(last', "GRAB_STARTED", s))
          /\ ~(EmittedFor(last, "GRAB_ENDED", s) /\ EmittedFor(last', "GRAB_ENDED", s)) ]_vars

\* C38: destroy_seat on a non-default seat that holds an active pointer grab
\* succeeds and emits only SEAT_DESTROYED; no GRAB_ENDED is emitted for that
\* grab then or later (a destroyed seat never comes back, and GRAB_ENDED is
\* emitted for existing seats only), and get_active_grabs does not list the seat.
C38_DestroyDropsGrabSilently ==
    [][ /\ (/\ last'.op = "destroy_seat"
            /\ last'.seat \in DOMAIN seats
            /\ last'.seat # default_seat_id
            /\ IsPointerGrabbed(seats[last'.seat])) =>
              /\ last'.status = "ok"
              /\ last'.events = <<Event("SEAT_DESTROYED", last'.seat, NoDevice)>>
              /\ last'.seat \notin DOMAIN seats'
        /\ \A s \in 1..next_id : s \notin DOMAIN seats => s \notin DOMAIN seats'
        /\ \A s \in SeatIds : EmittedFor(last', "GRAB_ENDED", s) => s \in DOMAIN seats
        /\ last'.op = "get_active_grabs" => DOMAIN last'.value \subseteq DOMAIN seats' ]_vars

\* A seat was destroyed right after it had been granted an active pointer grab,
\* and only SEAT_DESTROYED was emitted.
C38_Witness ==
    /\ prev.op = "request_pointer_grab"
    /\ prev.granted
    /\ IsActive(prev.arg)
    /\ last.op = "destroy_seat"
    /\ last.seat = prev.seat
    /\ last.status = "ok"
    /\ Len(last.events) = 1

\* C39: no registry operation installs a keyboard grab: in every reachable
\* state every seat's keyboard_grab is None, is_keyboard_grabbed is false for
\* every seat, and so is the keyboard_grabbed flag of every seat in get_status.
C39_NoKeyboardGrab ==
    /\ \A s \in DOMAIN seats :
          /\ seats[s].keyboard_grab = {}
          /\ ~IsKeyboardGrabbed(seats[s])
    /\ last.op = "get_status" =>
          /\ DOMAIN last.value.seats = DOMAIN seats
          /\ \A s \in DOMAIN last.value.seats : ~last.value.seats[s].keyboard_grabbed

\* get_status reported a seat that holds a granted grab of mode KEYBOARD as
\* pointer-grabbed and not keyboard-grabbed.
C39_Witness ==
    /\ last.op = "get_status"
    /\ \E s \in DOMAIN seats :
          /\ \E g \in seats[s].pointer_grab : g.mode = "KEYBOARD"
          /\ last.value.seats[s].pointer_grabbed
          /\ ~last.value.seats[s].keyboard_grabbed

====
